---------------------------- MODULE Spec2Model ----------------------------
(***************************************************************************)
(* A model of build.py: the runner loop of __main__ over a list of build   *)
(* steps, and the execute methods of the file steps (CopyFilesBuildStep,   *)
(* DeleteFilesBuildStep, RenameFileBuildStep) over a small filesystem.     *)
(***************************************************************************)
EXTENDS Integers, Sequences, FiniteSets, TLC

VARIABLES
    build_steps,  \* the list built at lines 264-289; each element holds the step's attributes
    idx,          \* number of loop iterations of line 293 that have completed normally
    executed,     \* positions whose execute() has been called (line 295)
    outcome,      \* position -> what execute() did there: the value it returned, or the exception
    numErrors,    \* line 265
    buildFailed,  \* line 266
    pc,           \* "loop" | "exited" for the runner; "ready" | "returned" | "raised" for one execute()
    exitCode,     \* argument of exit(), NoExit while running
    via,          \* how the run left: "none" | "handler" (line 306) | "summary" (lines 308-312)
    fs,           \* the filesystem: [dirs: set of absolute paths, files: absolute path -> content]
    fs0,          \* the filesystem when execute() was called
    step,         \* the file step under execution (its constructor arguments)
    exc           \* the exception execute() ended with, "none" otherwise

vars == <<build_steps, idx, executed, outcome, numErrors, buildFailed, pc, exitCode, via,
          fs, fs0, step, exc>>

runnerVars == <<build_steps, idx, executed, outcome, numErrors, buildFailed, exitCode, via>>
fileVars == <<fs, fs0, step, exc>>

(***************************************************************************)
(* Bounds of the model.                                                    *)
(***************************************************************************)
MaxSteps == 3     \* longest step list
MaxCode == 2      \* os.system / callback return values range over 0..MaxCode

NoExit == 0 - 1   \* exitCode while the process has not exited

(***************************************************************************)
(* Build steps (lines 26-55).                                              *)
(***************************************************************************)
StepKinds == {"CommandLine", "Generic", "File"}

\* BuildStep.__init__: the attributes every step object carries.  result is
\* False, which Python compares equal to 0 (bool is a subclass of int), so it
\* is held as 0.  The flag is stored under the name _stop_on_fail.
BuildStep(kind, stop_on_fail) ==
    [kind |-> kind, result |-> 0, _stop_on_fail |-> stop_on_fail]

\* What the outside world can make execute() observe: the exit status of
\* os.system, the value a callback returns, or an exception from the
\* callback or from a file step.
EnvOutcomes(s) ==
    CASE s.kind = "CommandLine" -> [rc : 0..MaxCode, throws : {FALSE}]
      [] s.kind = "Generic"     -> [rc : 0..MaxCode, throws : {FALSE}]
                                       \cup {[rc |-> 0, throws |-> TRUE]}
      [] OTHER                  -> {[rc |-> 0, throws |-> FALSE], [rc |-> 0, throws |-> TRUE]}

\* CommandLineBuildStep.execute: result is the command's exit status; a
\* nonzero status raises when _stop_on_fail is set.
CommandLineExecute(s, env) ==
    LET r == env.rc
    IN  IF r # 0 /\ s._stop_on_fail
        THEN [result |-> r, exc |-> "RuntimeError"]
        ELSE [result |-> r, exc |-> "none"]

\* GenericBuildStep: execute is the callback itself; what it returns is
\* dropped by the caller and result is never assigned.
GenericExecute(s, env) ==
    IF env.throws THEN [result |-> s.result, exc |-> "Exception"]
    ELSE [result |-> s.result, exc |-> "none"]

\* The file steps (copy, delete, rename, extract, zip) never assign result;
\* they return or raise.
FileExecute(s, env) ==
    IF env.throws THEN [result |-> s.result, exc |-> "OSError"]
    ELSE [result |-> s.result, exc |-> "none"]

Execute(s, env) ==
    CASE s.kind = "CommandLine" -> CommandLineExecute(s, env)
      [] s.kind = "Generic"     -> GenericExecute(s, env)
      [] OTHER                  -> FileExecute(s, env)

(***************************************************************************)
(* The runner loop (lines 291-312).                                        *)
(***************************************************************************)
\* Line 299 as the intended code would read it.
ReadPrivateStopOnFail(s) == [exc |-> "none", value |-> s._stop_on_fail]

\* Line 299: build_step.stop_on_fail.  The attribute read raises
\* AttributeError when the object has no attribute of that name.
ReadStopOnFail(s) ==
    IF "stop_on_fail" \in DOMAIN s
    THEN [exc |-> "none", value |-> s.stop_on_fail]
    ELSE [exc |-> "AttributeError", value |-> FALSE]

\* A handler that swallows the exception and goes on with the next step.
OnExceptionContinue(i) == [pc |-> "loop", idx |-> i, exitCode |-> NoExit, via |-> "none"]

\* A handler that exits with status 0.
OnExceptionExitZero(i) == [pc |-> "exited", idx |-> i - 1, exitCode |-> 0, via |-> "handler"]

\* Lines 304-306: the handler around the whole loop logs and calls exit(1).
\* i is the position of the step the exception came from.
OnException(i) == [pc |-> "exited", idx |-> i - 1, exitCode |-> 1, via |-> "handler"]

\* The summary exit with the test inverted.
SummaryExitInverted(failed) == IF failed THEN 0 ELSE 1

\* Lines 310-312.
SummaryExit(failed) == IF failed THEN 1 ELSE 0

\* Lines 293-303 (and 304-306 when something raises): one iteration.
LoopBody ==
    /\ pc = "loop"
    /\ ~buildFailed
    /\ idx < Len(build_steps)
    /\ LET i == idx + 1
           s == build_steps[i]
       IN  \E env \in EnvOutcomes(s) :
             LET ex == Execute(s, env)
                 s1 == [s EXCEPT !.result = ex.result]
                 failed == s1.result # 0                       \* line 296
                 attr == ReadStopOnFail(s1)                    \* line 299
                 raised == ex.exc # "none" \/ (failed /\ attr.exc # "none")
                 broke == ~raised /\ failed /\ attr.value      \* lines 300-301
                 h == OnException(i)
             IN  /\ build_steps' = [build_steps EXCEPT ![i] = s1]
                 /\ executed' = executed \cup {i}
                 /\ outcome' = [outcome EXCEPT ![i] =
                                  [rc |-> env.rc, exc |-> ex.exc, returned |-> ex.exc = "none"]]
                 /\ numErrors' = IF ex.exc = "none" /\ failed THEN numErrors + 1 ELSE numErrors
                 /\ buildFailed' = broke
                 /\ IF raised
                    THEN /\ pc' = h.pc
                         /\ idx' = h.idx
                         /\ exitCode' = h.exitCode
                         /\ via' = h.via
                    ELSE /\ pc' = "loop"
                         /\ idx' = i
                         /\ UNCHANGED <<exitCode, via>>
    /\ UNCHANGED fileVars

\* Lines 308-312: after the loop ends (exhausted, or left by break).
Summary ==
    /\ pc = "loop"
    /\ (idx = Len(build_steps) \/ buildFailed)
    /\ pc' = "exited"
    /\ exitCode' = SummaryExit(buildFailed)
    /\ via' = "summary"
    /\ UNCHANGED <<build_steps, idx, executed, outcome, numErrors, buildFailed>>
    /\ UNCHANGED fileVars

NoOutcome == [rc |-> 0, exc |-> "none", returned |-> FALSE]

EmptyFS == [dirs |-> {<<>>}, files |-> <<>>]
NoStep == [kind |-> "none"]

StepLists ==
    UNION {[1..n -> {BuildStep(k, b) : k \in StepKinds, b \in BOOLEAN}] : n \in 0..MaxSteps}

Init ==
    /\ build_steps \in StepLists
    /\ idx = 0
    /\ executed = {}
    /\ outcome = [i \in 1..Len(build_steps) |-> NoOutcome]
    /\ numErrors = 0
    /\ buildFailed = FALSE
    /\ pc = "loop"
    /\ exitCode = NoExit
    /\ via = "none"
    /\ fs = EmptyFS
    /\ fs0 = EmptyFS
    /\ step = NoStep
    /\ exc = "none"

Next == LoopBody \/ Summary

Spec == Init /\ [][Next]_vars

(***************************************************************************)
(* Paths.  A path string is a sequence of components; an absolute path     *)
(* starts with the component "/".  "" is the empty sequence.               *)
(***************************************************************************)
MaxDirLen == 2    \* longest directory part of a destination or target path

Cwd == <<"/", "r">>          \* the working directory (os.chdir(ROOT_DIR), line 263)

IsAbs(p) == Len(p) > 0 /\ p[1] = "/"

\* posixpath.dirname: everything before the last separator.
dirname(p) ==
    IF p = <<>> \/ p = <<"/">> THEN p ELSE SubSeq(p, 1, Len(p) - 1)

\* posixpath.basename.
basename(p) == IF p = <<>> \/ p = <<"/">> THEN "" ELSE p[Len(p)]

\* posixpath.join of two paths: an absolute second path replaces the first.
join(a, b) == IF IsAbs(b) THEN b ELSE a \o b

\* The loop of posixpath.normpath over the components.
RECURSIVE NormComps(_, _, _)
NormComps(comps, acc, abs) ==
    IF comps = <<>> THEN acc
    ELSE LET c == Head(comps)
             rest == Tail(comps)
         IN  IF c = "." THEN NormComps(rest, acc, abs)
             ELSE IF \/ c # ".."
                     \/ (~abs /\ acc = <<>>)
                     \/ (acc # <<>> /\ acc[Len(acc)] = "..")
                  THEN NormComps(rest, Append(acc, c), abs)
                  ELSE IF acc # <<>>
                       THEN NormComps(rest, SubSeq(acc, 1, Len(acc) - 1), abs)
                       ELSE NormComps(rest, acc, abs)

\* posixpath.normpath: "." for an empty result.
normpath(p) ==
    IF IsAbs(p) THEN <<"/">> \o NormComps(Tail(p), <<>>, TRUE)
    ELSE LET n == NormComps(p, <<>>, FALSE) IN IF n = <<>> THEN <<".">> ELSE n

\* posixpath.abspath: normpath(join(getcwd(), p)).
abspath(p) == normpath(join(Cwd, p))

RECURSIVE CommonLen(_, _)
CommonLen(a, b) ==
    IF a = <<>> \/ b = <<>> \/ Head(a) # Head(b) THEN 0
    ELSE 1 + CommonLen(Tail(a), Tail(b))

\* posixpath.relpath(path, start); the caller has checked that path is not "".
relpath(path, start) ==
    LET start_list == Tail(abspath(start))
        path_list == Tail(abspath(path))
        i == CommonLen(start_list, path_list)
        rel_list == [k \in 1..(Len(start_list) - i) |-> ".."]
                        \o SubSeq(path_list, i + 1, Len(path_list))
    IN  IF rel_list = <<>> THEN <<".">> ELSE rel_list

\* ".." in <string>: a substring test.  The components of the model are
\* "/", ".", ".." and names without dots, and a separator never completes a
\* "..", so it holds exactly when some component is "..".
ContainsDotDot(p) == \E k \in 1..Len(p) : p[k] = ".."

(***************************************************************************)
(* The filesystem: directories and regular files, named by the sequence    *)
(* of names from the root.  The operating system resolves a path string    *)
(* component by component, each intermediate one being an existing         *)
(* directory.                                                              *)
(***************************************************************************)
ENOENT == <<"ENOENT">>
ENOTDIR == <<"ENOTDIR">>

FileNodes(f) == {e[1] : e \in f.files}
Content(f, n) == (CHOOSE e \in f.files : e[1] = n)[2]
Parent(n) == IF n = <<>> THEN n ELSE SubSeq(n, 1, Len(n) - 1)
IsUnder(n, d) == Len(n) >= Len(d) /\ SubSeq(n, 1, Len(d)) = d

RECURSIVE Lookup(_, _, _)
Lookup(f, cur, toks) ==
    IF toks = <<>> THEN cur
    ELSE IF cur \in f.dirs
         THEN LET t == Head(toks)
                  nxt == CASE t = "."  -> cur
                           [] t = ".." -> Parent(cur)
                           [] OTHER    -> Append(cur, t)
              IN  Lookup(f, nxt, Tail(toks))
         ELSE IF cur \in FileNodes(f) THEN ENOTDIR ELSE ENOENT

\* The node a path string names (it need not exist), or ENOENT / ENOTDIR.
Resolve(f, p) ==
    IF p = <<>> THEN ENOENT
    ELSE IF IsAbs(p) THEN Lookup(f, <<>>, Tail(p))
    ELSE Lookup(f, Tail(Cwd), p)

isdir(f, p) == Resolve(f, p) \in f.dirs
exists(f, p) == isdir(f, p) \/ Resolve(f, p) \in FileNodes(f)

Ok(f) == [fs |-> f, exc |-> "none"]
Err(f, e) == [fs |-> f, exc |-> e]

\* os.mkdir.
mkdir(f, p) ==
    LET n == Resolve(f, p)
    IN  IF n = ENOENT THEN Err(f, "FileNotFoundError")
        ELSE IF n = ENOTDIR THEN Err(f, "NotADirectoryError")
        ELSE IF n \in f.dirs \/ n \in FileNodes(f) THEN Err(f, "FileExistsError")
        ELSE Ok([f EXCEPT !.dirs = @ \cup {n}])

\* os.makedirs(name) with exist_ok = False: create the missing ancestors,
\* ignoring FileExistsError from them, then mkdir the leaf.
RECURSIVE makedirs(_, _)
makedirs(f, p) ==
    LET head == dirname(p)
        tail == basename(p)
    IN  IF head # <<>> /\ tail # "" /\ ~exists(f, head)
        THEN LET r == makedirs(f, head)
             IN  IF r.exc \notin {"none", "FileExistsError"} THEN r
                 ELSE IF tail = "." THEN Ok(r.fs)
                 ELSE mkdir(r.fs, p)
        ELSE mkdir(f, p)

\* os.remove of a regular file.
remove(f, p) ==
    LET n == Resolve(f, p)
    IN  IF n \in FileNodes(f)
        THEN Ok([f EXCEPT !.files = {e \in @ : e[1] # n}])
        ELSE IF n \in f.dirs THEN Err(f, "IsADirectoryError")
        ELSE Err(f, "FileNotFoundError")

\* shutil.rmtree: the directory and everything below it.
rmtree(f, p) ==
    LET n == Resolve(f, p)
    IN  IF n \in f.dirs
        THEN Ok([dirs |-> {d \in f.dirs : ~IsUnder(d, n)},
                 files |-> {e \in f.files : ~IsUnder(e[1], n)}])
        ELSE IF n \in FileNodes(f) THEN Err(f, "NotADirectoryError")
        ELSE Err(f, "FileNotFoundError")

\* shutil.copy2(src, dst): into dst when dst is a directory; the content of
\* src is written to the target, whose directory must exist.
copy2(f, src, dst) ==
    LET target == IF isdir(f, dst) THEN join(dst, <<basename(src)>>) ELSE dst
        s == Resolve(f, src)
        t == Resolve(f, target)
    IN  IF s \in FileNodes(f) /\ s = t THEN Err(f, "SameFileError")
        ELSE IF s \in f.dirs THEN Err(f, "IsADirectoryError")
        ELSE IF s \notin FileNodes(f) THEN Err(f, "FileNotFoundError")
        ELSE IF t \in f.dirs THEN Err(f, "IsADirectoryError")
        ELSE IF t = ENOENT THEN Err(f, "FileNotFoundError")
        ELSE IF t = ENOTDIR THEN Err(f, "NotADirectoryError")
        ELSE Ok([f EXCEPT !.files = {e \in @ : e[1] # t} \cup {<<t, Content(f, s)>>}])

\* shutil.move(src, dst) of a regular file: into dst when dst is a
\* directory (refusing to overwrite there), else os.rename, which replaces
\* an existing file and needs the target's directory to exist; the copy
\* fallback fails where the rename did.
move(f, src, dst) ==
    LET into == isdir(f, dst)
        real_dst == IF into THEN join(dst, <<basename(src)>>) ELSE dst
        s == Resolve(f, src)
        t == Resolve(f, real_dst)
    IN  IF into /\ exists(f, real_dst) THEN Err(f, "shutil.Error")
        ELSE IF s \notin FileNodes(f) THEN Err(f, "FileNotFoundError")
        ELSE IF t = ENOENT THEN Err(f, "FileNotFoundError")
        ELSE IF t = ENOTDIR THEN Err(f, "NotADirectoryError")
        ELSE IF t \in f.dirs THEN Err(f, "IsADirectoryError")
        ELSE IF s = t THEN Ok(f)
        ELSE Ok([f EXCEPT !.files =
                    {e \in @ : e[1] # t /\ e[1] # s} \cup {<<t, Content(f, s)>>}])

(***************************************************************************)
(* Directory traversal and patterns.                                       *)
(***************************************************************************)
\* The orders in which the entries of a set can be listed.
Orders(S) ==
    {q \in [1..Cardinality(S) -> S] : \A i, j \in 1..Cardinality(S) : q[i] = q[j] => i = j}

SubdirNames(f, n) == {d[Len(d)] : d \in {e \in f.dirs : e # <<>> /\ Parent(e) = n}}
FileNames(f, n) == {e[Len(e)] : e \in {x \in FileNodes(f) : Parent(x) = n}}

\* os.walk(top), top-down: the sequences of (root, dirnames, filenames) it
\* can yield.  pending holds the directories still to visit, next first.
\* The order of the entries of a directory is the operating system's, so
\* every order is possible; a directory that cannot be listed yields nothing.
RECURSIVE WalkFrom(_, _)
WalkFrom(f, pending) ==
    IF pending = <<>> THEN {<<>>}
    ELSE LET top == Head(pending)
             n == Resolve(f, top)
         IN  IF n \notin f.dirs THEN WalkFrom(f, Tail(pending))
             ELSE UNION {
                    {<<[root |-> top, dirnames |-> ds, filenames |-> fl]>> \o rest :
                        rest \in WalkFrom(f, [k \in 1..Len(ds) |-> join(top, <<ds[k]>>)]
                                                 \o Tail(pending))} :
                    ds \in Orders(SubdirNames(f, n)), fl \in Orders(FileNames(f, n))}

\* The part of the walk a loop consumes: all of it, or the first triple
\* when the loop breaks after one iteration (not recursive).
walk(f, top, recursive) ==
    IF recursive THEN WalkFrom(f, <<top>>)
    ELSE {IF w = <<>> THEN w ELSE <<w[1]>> : w \in WalkFrom(f, <<top>>)}

\* str.lower on the names of the model.
Lower(name) ==
    CASE name = "X" -> "x"
      [] name = "Y" -> "y"
      [] OTHER -> name

\* re.search(regex, name, flags=re.IGNORECASE) for the patterns of the
\* model: ".*" matches every name; a one-letter literal matches the names
\* that contain that letter in either case, and every name it is tried on
\* here is one letter long.
search(regex, name) == regex = ".*" \/ Lower(regex) = Lower(name)

\* The list a loop of the form
\*   for root, dirnames, filenames in os.walk(..): for name in <names>: if re.search(..): append(join(root, name))
\* builds from one walk w; which is "filenames" or "dirnames".
RECURSIVE Collect(_, _, _)
Collect(w, regex, which) ==
    IF w = <<>> THEN <<>>
    ELSE LET t == w[1]
             names == IF which = "files" THEN t.filenames ELSE t.dirnames
             hits == SelectSeq(names, LAMBDA nm : search(regex, nm))
         IN  [k \in 1..Len(hits) |-> join(t.root, <<hits[k]>>)] \o Collect(Tail(w), regex, which)

\* The FileNotFoundError instances the steps raise themselves, by message.
NoDestinationError == "FileNotFoundError(Destination does not exist)"
NoMatchError == "FileNotFoundError(Failed to find a file matching the regex)"

(***************************************************************************)
(* CopyFilesBuildStep.execute (lines 66-88).                               *)
(***************************************************************************)
\* Lines 83-88: copy the matches in order; an exception ends the loop.
RECURSIVE CopyAll(_, _, _)
CopyAll(f, s, matches) ==
    IF matches = <<>> THEN Ok(f)
    ELSE LET file == Head(matches)
             dest_filename == join(s.dest_dir, relpath(file, s.source_dir))
             made == IF ~isdir(f, dirname(dest_filename))
                     THEN makedirs(f, dirname(dest_filename))
                     ELSE Ok(f)
         IN  IF made.exc # "none" THEN made
             ELSE LET c == copy2(made.fs, file, dest_filename)
                  IN  IF c.exc # "none" THEN c ELSE CopyAll(c.fs, s, Tail(matches))

\* Lines 67-72.
EnsureDir(f, dir, create) ==
    IF ~isdir(f, dir)
    THEN IF create THEN makedirs(f, dir) ELSE Err(f, NoDestinationError)
    ELSE Ok(f)

\* The results execute can end with, one per order of the traversal.
CopyFilesExecute(f, s) ==
    LET pre == EnsureDir(f, s.dest_dir, s.create_dest_dir)
    IN  IF pre.exc # "none" THEN {pre}
        ELSE {CopyAll(pre.fs, s, Collect(w, s.regex, "files")) :
                 w \in walk(pre.fs, s.source_dir, s.recursive)}

(***************************************************************************)
(* DeleteFilesBuildStep.execute (lines 98-124).                            *)
(***************************************************************************)
\* A guard that tests the path as given instead of the relative path.
DeleteGuardPathAsGiven(s) == s.directory

\* Line 99: the path the guard of line 102 tests.
DeleteGuardPath(s) == relpath(s.directory, <<".">>)

RECURSIVE RemoveAll(_, _)
RemoveAll(f, files) ==
    IF files = <<>> THEN Ok(f)
    ELSE LET r == remove(f, Head(files))
         IN  IF r.exc # "none" THEN r ELSE RemoveAll(r.fs, Tail(files))

RECURSIVE RmtreeAll(_, _)
RmtreeAll(f, dirs) ==
    IF dirs = <<>> THEN Ok(f)
    ELSE LET r == rmtree(f, Head(dirs))
         IN  IF r.exc # "none" THEN r ELSE RmtreeAll(r.fs, Tail(dirs))

\* Lines 105-124.  The default pattern "*" is not a regular expression:
\* re.search raises re.error the first time it is called.
DeleteTraverse(f, s) ==
    {IF s.regex = "*" /\ \E k \in 1..Len(w) : w[k].filenames # <<>> \/ w[k].dirnames # <<>>
     THEN Err(f, "re.error")
     ELSE LET r == RemoveAll(f, Collect(w, s.regex, "files"))
          IN  IF r.exc # "none" THEN r
              ELSE RmtreeAll(r.fs, Collect(w, s.regex, "dirs")) :
        w \in walk(f, s.directory, s.recursive)}

DeleteFilesExecute(f, s) ==
    IF s.directory = <<>> THEN {Err(f, "ValueError")}       \* relpath("") raises
    ELSE IF ContainsDotDot(DeleteGuardPath(s)) THEN {Err(f, "ValueError")}
    ELSE DeleteTraverse(f, s)

(***************************************************************************)
(* RenameFileBuildStep.execute (lines 135-150).                            *)
(***************************************************************************)
\* The directory the auto-create branch was meant to create.
RenameCreatesDestDir(dest_filename) == dirname(dest_filename)

\* Line 139: the argument of os.makedirs.
RenameCreates(dest_filename) == dirname(dirname(dest_filename))

\* Lines 136-141.
RenameEnsureDir(f, s) ==
    IF ~isdir(f, dirname(s.dest_filename))
    THEN IF s.create_dest_dir
         THEN makedirs(f, RenameCreates(s.dest_filename))
         ELSE Err(f, NoDestinationError)
    ELSE Ok(f)

\* Lines 142-150: source_file is the last match of the traversal.
RenameFileExecute(f, s) ==
    LET pre == RenameEnsureDir(f, s)
    IN  IF pre.exc # "none" THEN {pre}
        ELSE {LET found == Collect(w, s.regex, "files")
              IN  IF found = <<>> THEN Err(pre.fs, NoMatchError)
                  ELSE move(pre.fs, found[Len(found)], s.dest_filename) :
                 w \in walk(pre.fs, s.source_dir, TRUE)}

(***************************************************************************)
(* One execute() of a file step on a filesystem: the step and the          *)
(* filesystem are drawn from small families, execute runs as one step.     *)
(***************************************************************************)
Prefixes(n) == {SubSeq(n, 1, k) : k \in 0..Len(n)}

\* The filesystem holding the given files and directories, their ancestors
\* and the working directory.
MkFS(dirLeaves, fileEntries) ==
    [dirs |-> UNION {Prefixes(d) : d \in dirLeaves \cup {Tail(Cwd)}}
                \cup UNION {Prefixes(Parent(e[1])) : e \in fileEntries},
     files |-> fileEntries]

\* Path strings: an optional leading "/" and up to n components.
PathStrings(tokens, n) ==
    LET rel == UNION {[1..k -> tokens] : k \in 0..n}
    IN  rel \cup {<<"/">> \o q : q \in rel}

Finish(r) ==
    /\ fs' = r.fs
    /\ exc' = r.exc
    /\ pc' = IF r.exc = "none" THEN "returned" ELSE "raised"
    /\ UNCHANGED <<fs0, step>>
    /\ UNCHANGED runnerVars

InitFileStep ==
    /\ build_steps = <<>>
    /\ idx = 0
    /\ executed = {}
    /\ outcome = <<>>
    /\ numErrors = 0
    /\ buildFailed = FALSE
    /\ pc = "ready"
    /\ exitCode = NoExit
    /\ via = "none"
    /\ exc = "none"
    /\ fs0 = fs

\* --- DeleteFilesBuildStep ---
DeleteTokens == {"r", "o", "a", ".", ".."}

DeleteFileSets == SUBSET {<<<<"r", "a", "x">>, 1>>, <<<<"o", "x">>, 2>>, <<<<"o", "a", "y">>, 3>>}

DeleteFSs ==
    {MkFS(d \cup {<<"o">>, <<"r", "a">>}, e) :
        d \in {{}, {<<"r", "a", "a">>}}, e \in DeleteFileSets}

DeleteSteps ==
    [kind : {"DeleteFiles"}, directory : PathStrings(DeleteTokens, MaxDirLen),
     regex : {".*", "x", "*"}, recursive : BOOLEAN]

InitDelete ==
    /\ fs \in DeleteFSs
    /\ step \in DeleteSteps
    /\ InitFileStep

RunDelete ==
    /\ pc = "ready"
    /\ step.kind = "DeleteFiles"
    /\ \E r \in DeleteFilesExecute(fs, step) : Finish(r)

SpecDelete == InitDelete /\ [][RunDelete]_vars

\* --- RenameFileBuildStep ---
RenameTokens == {"a", "b", ".", ".."}

RenameSources ==
    {{}, {<<<<"r", "s", "x">>, 1>>}, {<<<<"r", "s", "x">>, 1>>, <<<<"r", "s", "y">>, 2>>},
     {<<<<"r", "s", "d", "x">>, 1>>}, {<<<<"r", "s", "x">>, 1>>, <<<<"r", "s", "d", "y">>, 2>>}}

RenameDestSides ==
    {[d |-> {}, e |-> {}],
     [d |-> {<<"r", "a">>}, e |-> {}],
     [d |-> {<<"r", "a", "b">>}, e |-> {}],
     [d |-> {}, e |-> {<<<<"r", "a">>, 9>>}],
     [d |-> {}, e |-> {<<<<"r", "a", "b">>, 9>>}],
     [d |-> {}, e |-> {<<<<"r", "a", "f">>, 9>>}],
     [d |-> {<<"a">>}, e |-> {}]}

RenameFSs ==
    {MkFS(t.d \cup {<<"r", "s">>}, t.e \cup src) : t \in RenameDestSides, src \in RenameSources}

RenameDests == {q \o <<"f">> : q \in PathStrings(RenameTokens, MaxDirLen)} \cup {<<>>}

RenameSteps ==
    [kind : {"RenameFile"}, source_dir : {<<"s">>}, dest_filename : RenameDests,
     create_dest_dir : BOOLEAN, regex : {".*", "X", "q"}]

InitRename ==
    /\ fs \in RenameFSs
    /\ step \in RenameSteps
    /\ InitFileStep

RunRename ==
    /\ pc = "ready"
    /\ step.kind = "RenameFile"
    /\ \E r \in RenameFileExecute(fs, step) : Finish(r)

SpecRename == InitRename /\ [][RunRename]_vars

\* --- CopyFilesBuildStep ---
CopySources ==
    SUBSET {<<<<"r", "s", "x">>, 1>>, <<<<"r", "s", "Y">>, 2>>,
            <<<<"r", "s", "b", "y">>, 2>>, <<<<"r", "s", "b", "c", "x">>, 3>>}

CopyDestSides ==
    {[d |-> {}, e |-> {}],
     [d |-> {<<"r", "o">>}, e |-> {}],
     [d |-> {<<"r", "o", "p">>}, e |-> {}],
     [d |-> {}, e |-> {<<<<"r", "o", "x">>, 9>>}],
     [d |-> {<<"r", "o", "x">>}, e |-> {}],
     [d |-> {}, e |-> {<<<<"r", "o", "b">>, 9>>}],
     [d |-> {}, e |-> {<<<<"r", "o">>, 9>>}]}

CopyFSs ==
    {MkFS(t.d \cup {<<"r", "s">>}, t.e \cup src) : t \in CopyDestSides, src \in CopySources}

CopySteps ==
    [kind : {"CopyFiles"}, source_dir : {<<"s">>, <<"s", "b">>, <<"n">>},
     dest_dir : {<<"o">>, <<"o", "p">>, <<"/", "r", "o">>},
     create_dest_dir : BOOLEAN, recursive : BOOLEAN, regex : {".*", "x", "Y"}]

InitCopy ==
    /\ fs \in CopyFSs
    /\ step \in CopySteps
    /\ InitFileStep

RunCopy ==
    /\ pc = "ready"
    /\ step.kind = "CopyFiles"
    /\ \E r \in CopyFilesExecute(fs, step) : Finish(r)

SpecCopy == InitCopy /\ [][RunCopy]_vars

(***************************************************************************)
(* Claims about the runner, checked under Spec.                            *)
(***************************************************************************)
Positions == 1..Len(build_steps)
Called(i) == i \in executed
Returned(i) == Called(i) /\ outcome[i].returned
Raised(i) == Called(i) /\ outcome[i].exc # "none"
FailureOutcome(i) == Called(i) /\ build_steps[i].result # 0
HaltingFailure(i) == FailureOutcome(i) /\ build_steps[i]._stop_on_fail

\* C1: a step with stop_on_failure = false that returns from execute with a
\* failure outcome (result != 0) does not stop the runner: every step after
\* it is executed, up to the first later step that itself halts or aborts
\* the run.
C1_NonHaltingFailureContinues ==
    pc = "exited" =>
        \A i \in Positions :
            (Returned(i) /\ FailureOutcome(i) /\ ~build_steps[i]._stop_on_fail) =>
                \A j \in (i + 1)..Len(build_steps) :
                    \/ Called(j)
                    \/ \E k \in (i + 1)..(j - 1) : Raised(k) \/ HaltingFailure(k)

\* C2: once a step with stop_on_failure = true has a failure outcome, no
\* step positioned after it has been executed, in any state of the run.
C2_HaltingFailureStopsRun ==
    \A i \in Positions :
        HaltingFailure(i) => \A j \in (i + 1)..Len(build_steps) : ~Called(j)

C2_Witness ==
    \E i \in Positions :
        /\ HaltingFailure(i)
        /\ i > 1
        /\ i < Len(build_steps)
        /\ pc = "exited"

\* C3: when a step's execute raises, the run is over at once: no later step
\* is executed and the process has exited with a nonzero status, whatever
\* the stop_on_failure flags are.
C3_RaiseAbortsRun ==
    \A i \in Positions :
        Raised(i) =>
            /\ pc = "exited"
            /\ exitCode # 0
            /\ exitCode # NoExit
            /\ via = "handler"
            /\ \A j \in (i + 1)..Len(build_steps) : ~Called(j)

C3_Witness ==
    \E i \in Positions :
        /\ Raised(i)
        /\ ~build_steps[i]._stop_on_fail
        /\ build_steps[i].kind # "CommandLine"
        /\ i < Len(build_steps)
        /\ \A j \in (i + 1)..Len(build_steps) : ~build_steps[j]._stop_on_fail
        /\ pc = "exited"

\* C4: a finished run has exit code 0 or 1; it is 0 when every step was
\* executed and succeeded, and 1 when some step failed with
\* stop_on_failure = true or some step raised.
C4_ExitCode ==
    pc = "exited" =>
        /\ exitCode \in {0, 1}
        /\ (\A i \in Positions : Returned(i) /\ ~FailureOutcome(i)) => exitCode = 0
        /\ (\E i \in Positions : HaltingFailure(i) \/ Raised(i)) => exitCode = 1

C4_Witness ==
    /\ pc = "exited"
    /\ exitCode = 0
    /\ Len(build_steps) = MaxSteps
    /\ \A i \in Positions : Returned(i)
    /\ \E i \in Positions : build_steps[i].kind = "CommandLine"

\* C5: for a CommandLine step and for a Generic step alike, a nonzero value
\* returned by the command or the callback is recorded as the step's
\* failure outcome (result != 0).
C5_NonzeroReturnRecorded ==
    \A i \in Positions :
        (Called(i) /\ build_steps[i].kind \in {"CommandLine", "Generic"}
                   /\ outcome[i].rc # 0)
            => build_steps[i].result # 0

\* C9: the halted branch (buildFailed = True; break) is never taken, the
\* summary is reached only with buildFailed = false and numErrors = 0, and
\* a step that returns from execute with result != 0 makes the run leave
\* through the exception handler with exit code 1 before any further step
\* is executed.
C9_HaltedBranchDead ==
    /\ buildFailed = FALSE
    /\ via = "summary" => (numErrors = 0 /\ exitCode = 0)
    /\ \A i \in Positions :
           (Returned(i) /\ FailureOutcome(i)) =>
               /\ pc = "exited"
               /\ via = "handler"
               /\ exitCode = 1
               /\ \A j \in (i + 1)..Len(build_steps) : ~Called(j)

C9_Witness ==
    \E i \in Positions :
        /\ Returned(i)
        /\ FailureOutcome(i)
        /\ i < Len(build_steps)
        /\ numErrors = 1
        /\ via = "handler"

(***************************************************************************)
(* Claims about the file steps.                                            *)
(***************************************************************************)
Done == pc \in {"returned", "raised"}
LastName(n) == n[Len(n)]

\* The directory lies outside the working directory once the path is made
\* absolute and normalised.
Outside(d) == d # <<>> /\ ~IsUnder(Tail(abspath(d)), Tail(Cwd))

\* C6 (checked under SpecDelete): DeleteFilesBuildStep.execute on a
\* directory outside the working directory raises ValueError and the
\* filesystem is as it was: nothing has been deleted.
C6_DeleteGuard ==
    (step.kind = "DeleteFiles" /\ Done /\ Outside(step.directory)) =>
        /\ pc = "raised"
        /\ exc = "ValueError"
        /\ fs = fs0

C6_Witness ==
    /\ step.kind = "DeleteFiles"
    /\ pc = "raised"
    /\ IsAbs(step.directory)
    /\ Outside(step.directory)
    /\ step.regex = ".*"
    /\ \E e \in fs0.files : Parent(e[1]) = Resolve(fs0, step.directory)

\* No file below source_dir has a name the pattern matches.
NoMatchUnderSource ==
    \A e \in fs0.files :
        IsUnder(e[1], Resolve(fs0, step.source_dir)) => ~search(step.regex, LastName(e[1]))

NotFoundErrors == {"FileNotFoundError", NoDestinationError, NoMatchError}

\* C7 (checked under SpecRename): when no file under source_dir matches,
\* RenameFileBuildStep.execute raises a not-found error and the filesystem
\* is as it was before the call (with no match, the only thing execute can
\* change is the directories leading to the destination).
C7_NoMatchLeavesDestination ==
    (step.kind = "RenameFile" /\ Done /\ NoMatchUnderSource) =>
        /\ pc = "raised"
        /\ exc \in NotFoundErrors
        /\ fs = fs0

\* The destination of a copied file: the same path relative to source_dir,
\* below dest_dir.
CopyImage(n) ==
    Resolve(fs, step.dest_dir)
        \o SubSeq(n, Len(Resolve(fs0, step.source_dir)) + 1, Len(n))

\* The files the step is to copy: below source_dir (directly in it when
\* not recursive) with a base name the pattern matches.
CopyMatches ==
    {n \in FileNodes(fs0) :
        /\ IsUnder(n, Resolve(fs0, step.source_dir))
        /\ step.recursive \/ Parent(n) = Resolve(fs0, step.source_dir)
        /\ search(step.regex, LastName(n))}

\* C8 (checked under SpecCopy): after CopyFilesBuildStep.execute returns,
\* every matching file under source_dir (directly in source_dir when not
\* recursive) is in dest_dir at the same relative path with the same
\* content, and no other file of dest_dir was created or changed.
C8_CopyPreservesRelativePaths ==
    (step.kind = "CopyFiles" /\ pc = "returned") =>
        /\ \A n \in CopyMatches : <<CopyImage(n), Content(fs0, n)>> \in fs.files
        /\ \A e \in fs.files \ fs0.files :
               IsUnder(e[1], Resolve(fs, step.dest_dir)) =>
                   \E n \in CopyMatches : e[1] = CopyImage(n)

DestDirMissing == ~isdir(fs0, dirname(step.dest_filename))
PlainPath(p) == \A k \in 1..Len(p) : p[k] \notin {".", ".."}

\* C10 as stated: whenever the directory part of dest_filename is not an
\* existing directory, execute ends by raising and every file is where it
\* was.
C10_NeverMovesIntoMissingDir ==
    (step.kind = "RenameFile" /\ Done /\ DestDirMissing) =>
        /\ pc = "raised"
        /\ fs.files = fs0.files

\* C10, amended (checked under SpecRename): the same for a dest_filename
\* with no "." or ".." component.
C10_NeverMovesIntoMissingDirPlain ==
    (step.kind = "RenameFile" /\ Done /\ DestDirMissing /\ PlainPath(step.dest_filename)) =>
        /\ pc = "raised"
        /\ fs.files = fs0.files

C10_Witness ==
    /\ step.kind = "RenameFile"
    /\ pc = "raised"
    /\ DestDirMissing
    /\ PlainPath(step.dest_filename)
    /\ step.create_dest_dir
    /\ ~NoMatchUnderSource
    /\ fs.dirs # fs0.dirs
    /\ exc = "FileNotFoundError"

=============================================================================
